---------------------------- MODULE Spec2Model ----------------------------
(***************************************************************************)
(* scripts/update-formula.py: the release helper that renders              *)
(* Formula/cloudconfig.rb from a version tag and two checksums.            *)
(*                                                                         *)
(* A string is a sequence of one-character strings.  Text that the         *)
(* template fixes is carried as one element per literal run, so that the   *)
(* rendered file is a flat sequence in which the substituted values keep   *)
(* their characters and a short write or an overlapping write can cut it   *)
(* anywhere between two elements.                                          *)
(***************************************************************************)
EXTENDS Integers, Sequences, FiniteSets, TLC

(***************************************************************************)
(* Bounds of the model.                                                    *)
(***************************************************************************)
MaxTagLen == 2

\* Strings over alphabet S of length at most n.
StringsUpTo(S, n) == UNION {[1..k -> S] : k \in 0..n}

\* Version tags: 'v' and a digit, so that "", "v", "v1", "vv", "1v" occur.
Tags == StringsUpTo({"v", "1"}, MaxTagLen)

\* Checksums: the empty one, a hex digit, a character that is no hex digit.
Shas == {<<>>, <<"a">>, <<"z">>}

\* sys.argv[0], the name the script was started under.
Progs == {<<"scripts/update-formula.py">>, <<"./update-formula.py">>}

\* Positional arguments of a run of the wrong arity: 0, 1, 2 or 4 of them.
WrongArgs == {<<>>, <<<<"v", "1">>>>, <<<<"v", "1">>, <<"a">>>>,
              <<<<"v", "1">>, <<"a">>, <<"z">>, <<"z">>>>}

\* Positional arguments of a run of the right arity.
RightArgs == {<<t, a, x>> : t \in Tags, a \in Shas, x \in Shas}

\* The command lines of the exclusive, one-at-a-time use the script assumes.
ArgvSet == {<<pr>> \o args : pr \in Progs, args \in RightArgs \cup WrongArgs}

\* The command lines of two uncoordinated release jobs: two releases whose
\* rendered texts differ in length, and one call of the wrong arity.
ConcArgvSet == {<<"scripts/update-formula.py", <<"v", "1">>, <<"a">>, <<"z">>>>,
                <<"scripts/update-formula.py", <<"v", "1", "1">>, <<"z">>, <<"a">>>>,
                <<"scripts/update-formula.py", <<"v", "1">>>>}

\* The process table: two invocations can be alive at once.
Procs == {"A", "B"}

\* Formula/cloudconfig.rb before the first run: absent, empty, shorter or
\* longer than any rendered text.
Absent == <<"(no such file)">>

OldShort == <<"old formula">>

OldLong == [i \in 1..40 |-> "old line"]

InitFiles == {Absent, <<>>, OldShort, OldLong}

(***************************************************************************)
(* The template of lines 27-86, cut at its substitution points.            *)
(***************************************************************************)
T_head == "# typed: false ... class Cloudconfig < Formula desc homepage version \""

T_arm_url == "\" license \"MIT\" on_macos do on_arm do url \""

T_sha == "\" sha256 \""

T_intel_url == "\" end on_intel do url \""

T_tail == "\" end end def install ... def post_install ... service do ... test do ... end"

BaseLit == "https://github.com/dickwu/CloudConfig/releases/download/"

NameLit == "/cloudconfig-"

ArmLit == "-aarch64-apple-darwin.tar.gz"

IntelLit == "-x86_64-apple-darwin.tar.gz"

\* Path(__file__).parent.parent / "Formula" / "cloudconfig.rb"
OutPath == "Formula/cloudconfig.rb"

(***************************************************************************)
(* Pure functions of main().                                               *)
(***************************************************************************)
\* Line 16, negated: len(sys.argv) == 4, the script name and three arguments.
\* (Variant: extra arguments tolerated.)
arity_ok_atleast(av) == Len(av) >= 4

arity_ok(av) == Len(av) = 4

\* str.lstrip(chars): drop leading characters while they are in chars.
RECURSIVE lstrip(_, _)
lstrip(s, chars) ==
  IF s # <<>> /\ Head(s) \in chars THEN lstrip(Tail(s), chars) ELSE s

\* Line 25: base = f".../releases/download/{version_tag}"
base(version_tag) == <<BaseLit>> \o version_tag

\* (Variant: the stripped version used in the artifact file names.)
formula_text_stripped(version, version_tag, arm_sha, x86_sha) ==
  <<T_head>> \o version
  \o <<T_arm_url>> \o base(version_tag) \o <<NameLit>> \o version \o <<ArmLit>>
  \o <<T_sha>> \o arm_sha
  \o <<T_intel_url>> \o base(version_tag) \o <<NameLit>> \o version \o <<IntelLit>>
  \o <<T_sha>> \o x86_sha
  \o <<T_tail>>

\* (Variant: the two checksums in each other's block.)
formula_text_swapped(version, version_tag, arm_sha, x86_sha) ==
  <<T_head>> \o version
  \o <<T_arm_url>> \o base(version_tag) \o <<NameLit>> \o version_tag \o <<ArmLit>>
  \o <<T_sha>> \o x86_sha
  \o <<T_intel_url>> \o base(version_tag) \o <<NameLit>> \o version_tag \o <<IntelLit>>
  \o <<T_sha>> \o arm_sha
  \o <<T_tail>>

\* Lines 27-86: the f-string, with version, base, version_tag (twice) and the
\* two checksums substituted.
formula_text(version, version_tag, arm_sha, x86_sha) ==
  <<T_head>> \o version
  \o <<T_arm_url>> \o base(version_tag) \o <<NameLit>> \o version_tag \o <<ArmLit>>
  \o <<T_sha>> \o arm_sha
  \o <<T_intel_url>> \o base(version_tag) \o <<NameLit>> \o version_tag \o <<IntelLit>>
  \o <<T_sha>> \o x86_sha
  \o <<T_tail>>

\* Line 24: version = version_tag.lstrip("v"), for a command line of arity 3.
version_of(av) == lstrip(av[2], {"v"})

\* (Variant: the text stamped with the name the script was started under.)
render_stamped(av, prior) ==
  formula_text(version_of(av), av[2], av[3], av[4]) \o <<"# generated by">> \o av[1]

\* Lines 20-86 in a run whose command line is av while the output file holds
\* prior: only av[2], av[3] and av[4] are read.
render(av, prior) == formula_text(version_of(av), av[2], av[3], av[4])

\* Line 17: the usage line, which names sys.argv[0].
usage_line(av) ==
  [text |-> "Usage: <version-tag> <arm-sha256> <x86-sha256>", prog |-> av[1]]

\* (Variant: the confirmation names the stripped version.)
confirmation_version(av) ==
  [text |-> "Updated", path |-> OutPath, tag |-> version_of(av)]

\* Line 90: print(f"Updated {out} to {version_tag}")
confirmation(av) == [text |-> "Updated", path |-> OutPath, tag |-> av[2]]

\* The interpreter's report of an exception nobody caught.
Traceback == [text |-> "Traceback (most recent call last): OSError"]

\* (Variant: the file opened without O_TRUNC.)
truncate_keep(content) == IF content = Absent THEN <<>> ELSE content

\* open(path, "w"): the file is created if absent and cut to length zero.
truncate(content) == <<>>

\* What open(path, "w") finds at the path, against the text about to be
\* written: no file, an empty one, the same text, or one shorter, as long or
\* longer.
stat(content, data) ==
  CASE content = Absent -> "absent"
    [] content = <<>> -> "empty"
    [] content = data -> "same text"
    [] Len(content) < Len(data) -> "shorter"
    [] Len(content) = Len(data) -> "same length"
    [] OTHER -> "longer"

\* (Variant: the file opened in append mode.)
pwrite_append(content, data, k) == content \o SubSeq(data, 1, k)

\* write(2) of the first k elements of data at offset 0 of a file that holds
\* content: what lies beyond the written range stays.
pwrite(content, data, k) ==
  SubSeq(data, 1, k) \o SubSeq(content, k + 1, Len(content))

(***************************************************************************)
(* State.                                                                  *)
(***************************************************************************)
VARIABLES
  mode,     \* "exclusive": one run at a time; "concurrent": uncoordinated runs
  file,     \* content of Formula/cloudconfig.rb, or Absent
  pc,       \* per process: idle, main, rendered, opened, written, exited
  argv,     \* per process: sys.argv
  found,    \* per process: what write_text's open found at the path
  version,  \* per process: local variable version
  formula,  \* per process: local variable formula
  out,      \* per process: lines on standard output
  err,      \* per process: lines on standard error
  status,   \* per process: exit status, -1 while there is none
  nwrites,  \* per process: calls of Path.write_text
  ioerr     \* per process: the OSError raised, "none", "open" or "write"

vars == <<mode, file, pc, argv, found, version, formula, out, err,
          status, nwrites, ioerr>>

locals == <<version, formula>>

Fresh(m) ==
  /\ mode = m
  /\ file \in InitFiles
  /\ pc = [p \in Procs |-> "idle"]
  /\ argv = [p \in Procs |-> <<>>]
  /\ found = [p \in Procs |-> "unopened"]
  /\ version = [p \in Procs |-> <<>>]
  /\ formula = [p \in Procs |-> <<>>]
  /\ out = [p \in Procs |-> <<>>]
  /\ err = [p \in Procs |-> <<>>]
  /\ status = [p \in Procs |-> -1]
  /\ nwrites = [p \in Procs |-> 0]
  /\ ioerr = [p \in Procs |-> "none"]

Init == Fresh("exclusive")

InitConc == Fresh("concurrent")

Inputs == IF mode = "exclusive" THEN ArgvSet ELSE ConcArgvSet

(***************************************************************************)
(* Actions.                                                                *)
(***************************************************************************)
\* The caller starts the script.  In exclusive use no other run is alive.
Invoke(p) ==
  /\ pc[p] = "idle"
  /\ mode = "exclusive" => \A q \in Procs : pc[q] = "idle"
  /\ \E av \in Inputs :
       argv' = [argv EXCEPT ![p] = av]
  /\ pc' = [pc EXCEPT ![p] = "main"]
  /\ UNCHANGED <<mode, file, found, locals, out, err, status, nwrites, ioerr>>

\* Lines 16-18: wrong number of arguments.
Usage(p) ==
  /\ pc[p] = "main"
  /\ ~arity_ok(argv[p])
  /\ err' = [err EXCEPT ![p] = Append(@, usage_line(argv[p]))]
  /\ status' = [status EXCEPT ![p] = 1]
  /\ pc' = [pc EXCEPT ![p] = "exited"]
  /\ UNCHANGED <<mode, file, argv, found, locals, out, nwrites, ioerr>>

\* Lines 20-86: the locals are computed and the text is rendered.
Render(p) ==
  /\ pc[p] = "main"
  /\ arity_ok(argv[p])
  /\ version' = [version EXCEPT ![p] = version_of(argv[p])]
  /\ formula' = [formula EXCEPT ![p] = render(argv[p], file)]
  /\ pc' = [pc EXCEPT ![p] = "rendered"]
  /\ UNCHANGED <<mode, file, argv, found, out, err, status, nwrites, ioerr>>

\* (Variant: the OSError caught and logged, and the run carried on.)
raise_caught(p, what) ==
  /\ ioerr' = [ioerr EXCEPT ![p] = what]
  /\ err' = [err EXCEPT ![p] = Append(@, Traceback)]
  /\ status' = status
  /\ pc' = [pc EXCEPT ![p] = "written"]

\* An OSError leaves main() and ends the process: nothing catches it.
raise(p, what) ==
  /\ ioerr' = [ioerr EXCEPT ![p] = what]
  /\ err' = [err EXCEPT ![p] = Append(@, Traceback)]
  /\ status' = [status EXCEPT ![p] = 1]
  /\ pc' = [pc EXCEPT ![p] = "exited"]

\* Line 89, first half: write_text opens the file for writing.
Open(p) ==
  /\ pc[p] = "rendered"
  /\ nwrites' = [nwrites EXCEPT ![p] = @ + 1]
  /\ found' = [found EXCEPT ![p] = stat(file, formula[p])]
  /\ file' = truncate(file)
  /\ pc' = [pc EXCEPT ![p] = "opened"]
  /\ UNCHANGED <<mode, argv, locals, out, err, status, ioerr>>

\* Line 89: the open fails (permission denied, no directory Formula/).
OpenFail(p) ==
  /\ pc[p] = "rendered"
  /\ nwrites' = [nwrites EXCEPT ![p] = @ + 1]
  /\ raise(p, "open")
  /\ UNCHANGED <<mode, file, argv, found, locals, out>>

\* Line 89, second half: the text is written and the file closed.
Write(p) ==
  /\ pc[p] = "opened"
  /\ file' = pwrite(file, formula[p], Len(formula[p]))
  /\ pc' = [pc EXCEPT ![p] = "written"]
  /\ UNCHANGED <<mode, argv, found, locals, out, err, status, nwrites, ioerr>>

\* Line 89: the device fills up after k elements of the text.
WriteFail(p) ==
  /\ pc[p] = "opened"
  /\ \E k \in 0..(Len(formula[p]) - 1) :
       file' = pwrite(file, formula[p], k)
  /\ raise(p, "write")
  /\ UNCHANGED <<mode, argv, found, locals, out, nwrites>>

\* Line 90 and the return of main(): the confirmation, exit status 0.
Confirm(p) ==
  /\ pc[p] = "written"
  /\ out' = [out EXCEPT ![p] = Append(@, confirmation(argv[p]))]
  /\ status' = [status EXCEPT ![p] = 0]
  /\ pc' = [pc EXCEPT ![p] = "exited"]
  /\ UNCHANGED <<mode, file, argv, found, locals, err, nwrites, ioerr>>

\* The caller collects an ended process; its slot is free again.
Reap(p) ==
  /\ pc[p] = "exited"
  /\ pc' = [pc EXCEPT ![p] = "idle"]
  /\ argv' = [argv EXCEPT ![p] = <<>>]
  /\ found' = [found EXCEPT ![p] = "unopened"]
  /\ version' = [version EXCEPT ![p] = <<>>]
  /\ formula' = [formula EXCEPT ![p] = <<>>]
  /\ out' = [out EXCEPT ![p] = <<>>]
  /\ err' = [err EXCEPT ![p] = <<>>]
  /\ status' = [status EXCEPT ![p] = -1]
  /\ nwrites' = [nwrites EXCEPT ![p] = 0]
  /\ ioerr' = [ioerr EXCEPT ![p] = "none"]
  /\ UNCHANGED <<mode, file>>

Next ==
  \E p \in Procs :
    \/ Invoke(p)
    \/ Usage(p)
    \/ Render(p)
    \/ Open(p)
    \/ OpenFail(p)
    \/ Write(p)
    \/ WriteFail(p)
    \/ Confirm(p)
    \/ Reap(p)

\* Exclusive, one-at-a-time use.
Spec == Init /\ [][Next]_vars

\* Uncoordinated use: runs overlap.
SpecConc == InitConc /\ [][Next]_vars

(***************************************************************************)
(* Reading the rendered text back.                                         *)
(***************************************************************************)
\* The position of the n-th occurrence of element tok in text (0 if none).
RECURSIVE Pos(_, _, _)
Pos(text, tok, n) ==
  LET hits == {i \in 1..Len(text) : text[i] = tok}
      first == CHOOSE i \in hits : \A j \in hits : i <= j
  IN  IF hits = {} THEN 0
      ELSE IF n = 1 THEN first
      ELSE LET rest == Pos(SubSeq(text, first + 1, Len(text)), tok, n - 1)
           IN  IF rest = 0 THEN 0 ELSE first + rest

\* The elements of text strictly between positions i and j.
Between(text, i, j) == SubSeq(text, i + 1, j - 1)

\* version "<...>"
VersionField(text) == Between(text, Pos(text, T_head, 1), Pos(text, T_arm_url, 1))

\* on_arm: url "<...>" and sha256 "<...>"
ArmUrl(text) == Between(text, Pos(text, T_arm_url, 1), Pos(text, T_sha, 1))

ArmSha(text) == Between(text, Pos(text, T_sha, 1), Pos(text, T_intel_url, 1))

\* on_intel: url "<...>" and sha256 "<...>"
IntelUrl(text) == Between(text, Pos(text, T_intel_url, 1), Pos(text, T_sha, 2))

IntelSha(text) == Between(text, Pos(text, T_sha, 2), Pos(text, T_tail, 1))

IsPrefix(s, t) == Len(s) <= Len(t) /\ s = SubSeq(t, 1, Len(s))

\* The process has a command line of arity 3 and has rendered its text.
Rendered(p) == pc[p] \in {"rendered", "opened", "written", "exited"} /\ Len(argv[p]) = 4

\* The process's write_text has returned.
Wrote(p) == pc[p] = "written" \/ (pc[p] = "exited" /\ status[p] = 0)

\* The process has ended with exit status 0.
Succeeded(p) == pc[p] = "exited" /\ status[p] = 0

(***************************************************************************)
(* C1.  A run whose number of positional arguments is not 3 ends with exit *)
(* status 1, exactly the usage line on standard error, nothing on standard*)
(* output and no call of write_text, and no step taken while such a run is *)
(* alive changes the output file.                                          *)
(***************************************************************************)
C1_UsageEnd ==
  \A p \in Procs :
    (pc[p] = "exited" /\ Len(argv[p]) # 4) =>
      /\ status[p] = 1
      /\ err[p] = <<[text |-> "Usage: <version-tag> <arm-sha256> <x86-sha256>",
                     prog |-> argv[p][1]]>>
      /\ out[p] = <<>>
      /\ nwrites[p] = 0
      /\ ioerr[p] = "none"

C1_FileUntouched ==
  (\E p \in Procs : pc[p] # "idle" /\ Len(argv[p]) # 4) => file' = file

C1_UsageOnly ==
  \A p \in Procs :
    (pc[p] = "main" /\ Len(argv[p]) # 4 /\ pc'[p] # pc[p]) => pc'[p] = "exited"

C1_UsageError ==
  []C1_UsageEnd /\ [][C1_FileUntouched /\ C1_UsageOnly]_vars

\* A run with four positional arguments has ended over a file that exists.
C1_Witness ==
  \E p \in Procs :
    pc[p] = "exited" /\ Len(argv[p]) = 5 /\ file = OldLong /\ status[p] = 1

(***************************************************************************)
(* C2.  The derived version is the tag with ONE leading 'v' removed, if it *)
(* has one, and the tag itself otherwise.                                  *)
(***************************************************************************)
StripOne(s) == IF s # <<>> /\ Head(s) = "v" THEN Tail(s) ELSE s

C2_SingleStrip ==
  \A p \in Procs : Rendered(p) => version[p] = StripOne(argv[p][2])

(***************************************************************************)
(* C3.  The write is atomic: every step leaves the output file as it was   *)
(* or holding the complete text some process has rendered.                 *)
(***************************************************************************)
C3_Atomic ==
  [][file' = file \/ \E p \in Procs : Rendered(p) /\ file' = formula[p]]_vars

(***************************************************************************)
(* C3, amended.  Every step leaves the output file as it was or holding a  *)
(* prefix of the text the stepping run rendered: the file is empty once    *)
(* write_text has opened it, holds a proper prefix after a write that      *)
(* failed, and the complete text once the write has returned.              *)
(***************************************************************************)
C3_Stages ==
  \A p \in Procs :
    /\ pc[p] = "opened" => file = <<>>
    /\ Wrote(p) => file = formula[p]
    /\ ioerr[p] = "write" =>
         IsPrefix(file, formula[p]) /\ Len(file) < Len(formula[p])

C3_StepPrefix ==
  \/ file' = file
  \/ \E p \in Procs : pc[p] \in {"rendered", "opened"} /\ pc'[p] # pc[p]
                      /\ IsPrefix(file', formula[p])

C3_PriorOrPrefix == []C3_Stages /\ [][C3_StepPrefix]_vars

\* A write failed midway over a longer file: part of the new text, no more.
C3_Witness ==
  \E p \in Procs :
    /\ ioerr[p] = "write" /\ found[p] = "longer"
    /\ file # <<>> /\ Len(file) < Len(formula[p])

(***************************************************************************)
(* C4.  Last writer wins: once two concurrent runs with different rendered *)
(* texts have both succeeded, the file holds the text of one of them.      *)
(***************************************************************************)
C4_LastWriterWins ==
  ((\A p \in Procs : Succeeded(p)) /\ formula["A"] # formula["B"]) =>
    \E p \in Procs : file = formula[p]

(***************************************************************************)
(* C4, amended.  Once both runs have succeeded the file begins with the    *)
(* complete text of the run that wrote last; it is that text, or that text *)
(* followed by what the other run's longer text has beyond its length.     *)
(***************************************************************************)
C4_LastWriterPrefix ==
  (\A p \in Procs : Succeeded(p)) =>
    \E w \in Procs : \E o \in Procs \ {w} :
      \/ file = formula[w]
      \/ /\ Len(formula[o]) > Len(formula[w])
         /\ file = formula[w]
                   \o SubSeq(formula[o], Len(formula[w]) + 1, Len(formula[o]))

\* Both runs succeeded and the file is the text of neither.
C4_Witness ==
  /\ \A p \in Procs : Succeeded(p)
  /\ \A p \in Procs : file # formula[p]

(***************************************************************************)
(* C5.  After a run's write_text has returned, the output file exists and  *)
(* is exactly the text the run rendered, whether the path held no file, an *)
(* empty one, or one shorter, as long or longer than the text.             *)
(***************************************************************************)
C5_FullyOverwritten ==
  \A p \in Procs :
    Wrote(p) =>
      /\ file = formula[p]
      /\ file # Absent
      /\ found[p] \in {"absent", "empty", "same text", "shorter", "same length",
                       "longer"}

\* A run succeeded over a file that was longer than its text.
C5_Witness ==
  \E p \in Procs : Succeeded(p) /\ found[p] = "longer" /\ file = formula[p]

(***************************************************************************)
(* C6.  After a run's write_text has returned, the file is the text        *)
(* rendered from the run's three arguments under any program name and any  *)
(* prior content of the file; a run over the text of an earlier identical  *)
(* run leaves that text.                                                   *)
(***************************************************************************)
C6_FunctionOfArguments ==
  \A p \in Procs :
    Wrote(p) =>
      \A pr \in Progs : \A prior \in InitFiles \cup {file, formula[p]} :
        file = render(<<pr>> \o Tail(argv[p]), prior)

\* A run succeeded over a file that already held exactly its text.
C6_Witness ==
  \E p \in Procs :
    Succeeded(p) /\ found[p] = "same text" /\ argv[p][1] = <<"./update-formula.py">>

(***************************************************************************)
(* C7.  Both artifact URLs carry the raw version tag, in the download path *)
(* and in the file name; the stripped version is the version field.        *)
(***************************************************************************)
C7_RawTagInUrls ==
  \A p \in Procs :
    Rendered(p) =>
      LET tag == argv[p][2]
          pre == <<"https://github.com/dickwu/CloudConfig/releases/download/">>
                 \o tag \o <<"/cloudconfig-">> \o tag
      IN  /\ ArmUrl(formula[p]) = pre \o <<"-aarch64-apple-darwin.tar.gz">>
          /\ IntelUrl(formula[p]) = pre \o <<"-x86_64-apple-darwin.tar.gz">>
          /\ VersionField(formula[p]) = version[p]

\* A written file whose tag has a leading 'v' that the version field lacks.
C7_Witness ==
  \E p \in Procs :
    /\ Succeeded(p) /\ argv[p][2] = <<"v", "1">> /\ version[p] = <<"1">>
    /\ ArmUrl(file) = <<BaseLit, "v", "1", NameLit, "v", "1", ArmLit>>

(***************************************************************************)
(* C8.  A run of arity 3 is never turned away for its checksums: the       *)
(* on_arm block's sha256 is the second argument and the on_intel block's   *)
(* the third, as given, and the run fails only on an OSError.              *)
(***************************************************************************)
C8_ChecksumsVerbatim ==
  \A p \in Procs :
    Rendered(p) =>
      /\ ArmSha(formula[p]) = argv[p][3]
      /\ IntelSha(formula[p]) = argv[p][4]
      /\ (pc[p] = "exited" /\ ioerr[p] = "none") => status[p] = 0 /\ err[p] = <<>>

\* A written file with an empty ARM checksum and an Intel one that is not hex.
C8_Witness ==
  \E p \in Procs :
    /\ Succeeded(p) /\ argv[p][3] = <<>> /\ argv[p][4] = <<"z">>
    /\ ArmSha(file) = <<>> /\ IntelSha(file) = <<"z">>

(***************************************************************************)
(* C9.  A run whose write_text raised has ended with a non-zero status,    *)
(* has printed no confirmation and has called write_text once; no later    *)
(* step of it touches the file.                                            *)
(***************************************************************************)
C9_Ended ==
  \A p \in Procs :
    ioerr[p] # "none" =>
      /\ pc[p] = "exited"
      /\ status[p] # 0
      /\ out[p] = <<>>
      /\ nwrites[p] = 1

C9_NoCompensation == (\E p \in Procs : ioerr[p] # "none") => file' = file

C9_ErrorNotCaught == []C9_Ended /\ [][C9_NoCompensation]_vars

\* A run ended by a failed write that left part of its text behind.
C9_Witness ==
  \E p \in Procs : ioerr[p] = "write" /\ pc[p] = "exited" /\ file # <<>>

(***************************************************************************)
(* C10.  A run that succeeded called write_text once, printed exactly one  *)
(* confirmation naming the output path and the raw tag, and nothing on     *)
(* standard error; a confirmation is on standard output only after the     *)
(* write has returned, with the file holding the text.                     *)
(***************************************************************************)
C10_WriteThenConfirm ==
  \A p \in Procs :
    /\ Succeeded(p) =>
         /\ nwrites[p] = 1
         /\ out[p] = <<[text |-> "Updated", path |-> "Formula/cloudconfig.rb",
                        tag |-> argv[p][2]]>>
         /\ err[p] = <<>>
    /\ out[p] # <<>> => Succeeded(p) /\ ioerr[p] = "none" /\ file = formula[p]
    /\ pc[p] = "written" => out[p] = <<>> /\ status[p] = -1

\* A run succeeded with a tag whose leading 'v' the confirmation keeps.
C10_Witness ==
  \E p \in Procs :
    Succeeded(p) /\ Len(out[p]) = 1 /\ out[p][1].tag = <<"v", "v">>

==========================================================================
